---------------------------- MODULE Spec2Model ----------------------------
(***************************************************************************)
(* Model of autopilot/transform/timeseries.py: the streaming IIR filter    *)
(* wrapper Filter_IIR and the linear Kalman filter Kalman.                 *)
(*                                                                         *)
(* Numbers are exact rationals <<num, den>> (den > 0, lowest terms) and    *)
(* the float NaN, so every matrix product, inverse and filter recursion is *)
(* computed, not abstracted.  Python values are tagged records [kind, v]; an attribute   *)
(* an instance does not (yet) have is the value Absent, and reading it     *)
(* raises AttributeError as it does in Python.                             *)
(***************************************************************************)
EXTENDS Integers, Sequences, FiniteSets, TLC

VARIABLES
    iir,        \* the Filter_IIR instance: its attributes and construction status
    iir_out,    \* outcome of the last Filter_IIR call: exception and returned value
    fed,        \* history: every sample passed to Filter_IIR.process, in arrival order
    kf,         \* the Kalman instance: its attribute dictionary
    call,       \* history: the last Kalman call (operation, arguments, pre-state, outcome)
    ncalls      \* number of Kalman method calls made so far (bounded by MaxCalls)

vars == <<iir, iir_out, fed, kf, call, ncalls>>

\* ------------------------------------------------------------------ bounds

\* samples fed to one Filter_IIR (more than its buffer holds)
MaxFed == 4
\* the largest buffer_size a Filter_IIR is constructed with
MaxBuf == 2
\* calls made on one Kalman instance after its construction
MaxCalls == 2

\* --------------------------------------------------------------- rationals

Abs(n) == IF n < 0 THEN -n ELSE n

RECURSIVE GCD(_, _)
GCD(a, b) == IF b = 0 THEN a ELSE GCD(b, a % b)

\* float('nan'): the one number with denominator 0.  Arithmetic with a NaN
\* operand gives NaN, and every ordering or equality comparison with NaN is
\* False.
NaN == <<0, 0>>
IsNaN(p) == p[2] = 0

Rat(n, d) ==
    IF d = 0 THEN NaN
    ELSE LET g == GCD(Abs(n), Abs(d))
             s == IF d < 0 THEN -1 ELSE 1
         IN  <<(s * n) \div g, (s * d) \div g>>

Q0 == <<0, 1>>
Q1 == <<1, 1>>
QInt(n) == <<n, 1>>

RAdd(p, q) == Rat(p[1] * q[2] + q[1] * p[2], p[2] * q[2])
RNeg(p) == <<-p[1], p[2]>>
RSub(p, q) == RAdd(p, RNeg(q))
RMul(p, q) == Rat(p[1] * q[1], p[2] * q[2])
\* p / q; every division of the model has a non-zero divisor (the leading
\* denominator coefficient, a non-zero determinant) or a NaN operand
RDiv(p, q) == Rat(p[1] * q[2], p[2] * q[1])
\* p < q, p <= q, p == q as floats compare
RLess(p, q) == ~IsNaN(p) /\ ~IsNaN(q) /\ p[1] * q[2] < q[1] * p[2]
RLeq(p, q) == ~IsNaN(p) /\ ~IsNaN(q) /\ p[1] * q[2] <= q[1] * p[2]
REq(p, q) == ~IsNaN(p) /\ ~IsNaN(q) /\ p = q

\* integer square root (floor), used for value ** .5 on perfect squares
ISqrt(n) == CHOOSE r \in 0..n : r * r <= n /\ (r + 1) * (r + 1) > n
RSqrt(p) == Rat(ISqrt(p[1]), ISqrt(p[2]))

RECURSIVE RSum(_, _)
RSum(f, n) == IF n = 0 THEN Q0 ELSE RAdd(RSum(f, n - 1), f[n])

\* ------------------------------------------------------- strict evaluation
\* With(v, Op) is Op(v) with v evaluated once, before Op is applied (numpy
\* evaluates the operands of a call before the call).

With(v, Op(_)) == CHOOSE r \in {Op(w) : w \in {v}} : TRUE
With2(v1, v2, Op(_, _)) == CHOOSE r \in {Op(w1, w2) : w1 \in {v1}, w2 \in {v2}} : TRUE

\* ---------------------------------------------------------------- matrices
\* A matrix is a tuple of rows, a row a tuple of rationals.

Rows(A) == Len(A)
Cols(A) == Len(A[1])

\* the r-by-c matrix with entry E(i, j) at row i, column j
Mat(r, c, E(_, _)) ==
    SubSeq([i \in 1..r |-> SubSeq([j \in 1..c |-> E(i, j)], 1, c)], 1, r)

Zeros(r, c) == Mat(r, c, LAMBDA i, j : Q0)
Eye(n) == Mat(n, n, LAMBDA i, j : IF i = j THEN Q1 ELSE Q0)
Transpose(A) == With(A, LAMBDA a : Mat(Cols(a), Rows(a), LAMBDA i, j : a[j][i]))
MAdd(A, B) ==
    With2(A, B, LAMBDA a, b : Mat(Rows(a), Cols(a), LAMBDA i, j : RAdd(a[i][j], b[i][j])))
MSub(A, B) ==
    With2(A, B, LAMBDA a, b : Mat(Rows(a), Cols(a), LAMBDA i, j : RSub(a[i][j], b[i][j])))
Scale(q, A) ==
    With2(q, A, LAMBDA s, a : Mat(Rows(a), Cols(a), LAMBDA i, j : RMul(s, a[i][j])))
Dot(A, B) ==
    With2(A, B, LAMBDA a, b :
        Mat(Rows(a), Cols(b), LAMBDA i, j :
            RSum([k \in 1..Cols(a) |-> RMul(a[i][k], b[k][j])], Cols(a))))

\* A without row i and column j
Minor(A, i, j) ==
    Mat(Rows(A) - 1, Rows(A) - 1, LAMBDA r, c :
        A[IF r < i THEN r ELSE r + 1][IF c < j THEN c ELSE c + 1])

RECURSIVE DetOf(_)
DetOf(a) ==
    IF Rows(a) = 1 THEN a[1][1]
    ELSE RSum([j \in 1..Rows(a) |->
                 RMul(IF j % 2 = 1 THEN a[1][j] ELSE RNeg(a[1][j]),
                      With(Minor(a, 1, j), LAMBDA m : DetOf(m)))], Rows(a))

Det(A) == With(A, LAMBDA a : DetOf(a))

\* np.linalg.inv raises LinAlgError exactly when the matrix is singular
Singular(A) == Det(A) = Q0

\* the inverse of a non-singular square matrix (adjugate over determinant)
Inv(A) ==
    With2(A, Det(A), LAMBDA a, d :
        IF Rows(a) = 1 THEN <<<<RDiv(Q1, a[1][1])>>>>
        ELSE Mat(Rows(a), Rows(a), LAMBDA i, j :
                RDiv(IF (i + j) % 2 = 0 THEN Det(Minor(a, j, i))
                     ELSE RNeg(Det(Minor(a, j, i))), d)))

\* A == A.T in every entry
IsSymmetric(A) ==
    With(A, LAMBDA a :
        /\ Rows(a) = Cols(a)
        /\ \A i \in 1..Rows(a), j \in 1..Rows(a) : REq(a[i][j], a[j][i]))

\* ----------------------------------------------------------- Python values

PyNone == [kind |-> "None", v |-> <<>>]
Absent == [kind |-> "absent", v |-> <<>>]
PyFloat(q) == [kind |-> "scalar", v |-> q]
PyArr(A) == [kind |-> "array", v |-> A]

IsNone(x) == x.kind = "None"
IsScalar(x) == x.kind = "scalar"
HasAttr(x) == x.kind # "absent"


\* ============================================================== Filter_IIR

BufferSizes == 1..MaxBuf
Samples == {<<-1, 1>>, <<0, 1>>, <<1, 1>>}
CoefTypes == {"ba", "sos", "zpk", "tf"}
Designs == {1, 2}

\* The coefficient source (scipy.signal.iirfilter) is external: a design (filter
\* type, order, critical frequencies) is an index into a table of coefficient sets,
\* each with leading denominator coefficient 1 as iirfilter produces them.
DesignBA(d) ==
    IF d = 1 THEN << <<Q1, Q1>>, <<Q1, <<-1, 2>> >> >>
    ELSE << <<Q1, <<2, 1>>, Q1>>, <<Q1, Q0, <<1, 4>> >> >>

DesignSOS(d) ==
    IF d = 1 THEN << <<Q1, Q1, Q0, Q1, <<-1, 2>>, Q0>> >>
    ELSE << <<Q1, <<2, 1>>, Q1, Q1, Q0, <<1, 4>> >>,
            <<Q1, Q1, Q0, Q1, <<-1, 2>>, Q0>> >>

DesignZPK(d) ==
    IF d = 1 THEN << <<<<-1, 1>>>>, <<<<1, 2>>>>, <<Q1>> >>
    ELSE << <<<<-1, 1>>, <<-1, 1>>>>, <<Q0, Q0>>, <<Q1>> >>

\* signal.iirfilter(ftype=..., output=coef_type, **kwargs): the output forms it
\* knows are 'ba', 'zpk' and 'sos'; any other raises ValueError.
IirFilter(output, d) ==
    CASE output = "ba"  -> [exc |-> "", coefs |-> DesignBA(d)]
      [] output = "sos" -> [exc |-> "", coefs |-> DesignSOS(d)]
      [] output = "zpk" -> [exc |-> "", coefs |-> DesignZPK(d)]
      [] OTHER          -> [exc |-> "ValueError", coefs |-> <<>>]

\* a deque that never evicts (maxlen ignored)
DequeAppendUnbounded(buf, x, maxlen) == Append(buf, x)

\* a deque that, when full, discards its newest item instead of its oldest
DequeAppendEvictNewest(buf, x, maxlen) ==
    IF Len(buf) >= maxlen THEN Append(SubSeq(buf, 1, maxlen - 1), x)
    ELSE Append(buf, x)

\* collections.deque(maxlen=n).append(x): add at the right end; when the deque
\* is then longer than maxlen, the leftmost item is discarded.
DequeAppend(buf, x, maxlen) ==
    LET b1 == Append(buf, x)
    IN  IF Len(b1) > maxlen THEN Tail(b1) ELSE b1

\* coefficient i (1-based) of c, zero beyond its length
Coef(c, i) == IF i <= Len(c) THEN c[i] ELSE Q0

Max(a, b) == IF a >= b THEN a ELSE b
Min(a, b) == IF a <= b THEN a ELSE b

\* One sample through a direct-form-II-transposed section with delay state z:
\* returns <<y, z'>>.
LFilterStep(b, a, z, x) ==
    LET L == Max(Len(b), Len(a))
        bn(i) == RDiv(Coef(b, i), a[1])
        an(i) == RDiv(Coef(a, i), a[1])
        y == RAdd(RMul(bn(1), x), IF L > 1 THEN z[1] ELSE Q0)
        zn == [i \in 1..(L - 1) |->
                 RSub(RAdd(RMul(bn(i + 1), x), IF i < L - 1 THEN z[i + 1] ELSE Q0),
                      RMul(an(i + 1), y))]
    IN  <<y, zn>>

RECURSIVE LFilterRun(_, _, _, _)
LFilterRun(b, a, z, x) ==
    IF x = <<>> THEN <<>>
    ELSE LET r == LFilterStep(b, a, z, Head(x))
         IN  <<r[1]>> \o LFilterRun(b, a, r[2], Tail(x))

\* signal.lfilter(b, a, x) with zero initial conditions
LFilter(b, a, x) ==
    LFilterRun(b, a, [i \in 1..(Max(Len(b), Len(a)) - 1) |-> Q0], x)

\* signal.sosfilt(sos, x): the sections in cascade, each from zero initial state
RECURSIVE SosFilt(_, _)
SosFilt(sos, x) ==
    IF sos = <<>> THEN x
    ELSE SosFilt(Tail(sos),
                 LFilter(SubSeq(Head(sos), 1, 3), SubSeq(Head(sos), 4, 6), x))

Last(s) == s[Len(s)]

NoOut == [op |-> "none", exc |-> "", ret |-> PyNone]

IIR_New ==
    [status |-> "new", coef_type |-> "", axis |-> 0, coefs |-> <<>>,
     maxlen |-> 0, buffer |-> <<>>]

\* Filter_IIR.__init__(ftype, buffer_size, coef_type, axis=0, **kwargs)
IIR_Init(self, coef_type, d, buffer_size) ==
    LET c == IirFilter(coef_type, d)
        s1 == [self EXCEPT !.coef_type = coef_type, !.axis = 0]
    IN  IF c.exc # ""
        THEN [self |-> [s1 EXCEPT !.status = "rejected"], exc |-> c.exc, ret |-> PyNone]
        ELSE [self |-> [s1 EXCEPT !.status = "constructed", !.coefs = c.coefs,
                                  !.maxlen = buffer_size, !.buffer = <<>>],
              exc |-> "", ret |-> PyNone]

\* Filter_IIR.process(input)
IIR_ProcessCall(self, input) ==
    LET s1 == [self EXCEPT !.buffer = DequeAppend(self.buffer, input, self.maxlen)]
    IN  IF s1.coef_type = "ba"
        THEN [self |-> s1, exc |-> "",
              ret |-> PyFloat(Last(LFilter(s1.coefs[1], s1.coefs[2], s1.buffer)))]
        ELSE IF s1.coef_type = "sos"
        THEN [self |-> s1, exc |-> "",
              ret |-> PyFloat(Last(SosFilt(s1.coefs, s1.buffer)))]
        ELSE [self |-> s1, exc |-> "", ret |-> PyNone]

IIR_Construct ==
    /\ iir.status = "new"
    /\ \E ct \in CoefTypes, d \in Designs, n \in BufferSizes :
         LET r == IIR_Init(iir, ct, d, n)
         IN  /\ iir' = r.self
             /\ iir_out' = [op |-> "__init__", exc |-> r.exc, ret |-> r.ret]
    /\ UNCHANGED <<fed, kf, call, ncalls>>

IIR_Process ==
    /\ iir.status = "constructed"
    /\ Len(fed) < MaxFed
    /\ \E x \in Samples :
         LET r == IIR_ProcessCall(iir, x)
         IN  /\ iir' = r.self
             /\ iir_out' = [op |-> "process", exc |-> r.exc, ret |-> r.ret]
             /\ fed' = Append(fed, x)
    /\ UNCHANGED <<kf, call, ncalls>>


\* ================================================================== Kalman

\* Names bound in the module's global namespace: the imports of lines 4-8 and
\* the two classes.  Any other bare name raises NameError when evaluated.
ModuleGlobals ==
    {"deque", "Transform", "signal", "np", "copy", "deepcopy", "Filter_IIR", "Kalman"}

NameBound(name) == name \in ModuleGlobals

\* The numpy functions the module uses that numpy provides.  np.<other> raises
\* AttributeError when evaluated.
NumpyNames == {"zeros", "eye", "array", "dot", "isscalar", "copyto", "linalg"}

NumpyHas(name) == name \in NumpyNames

PyInt(n) == PyFloat(QInt(n))
IntOf(x) == x.v[1]

\* np.array([[None] * m]).T : an m-by-1 object array holding None
NoneColumn(m) == [i \in 1..m |-> << <<>> >>]

Kalman_New ==
    [dim_state |-> Absent, dim_measurement |-> Absent, dim_control |-> Absent,
     x_state |-> Absent, P_cov |-> Absent, Q_proc_var |-> Absent,
     B_control |-> Absent, F_state_trans |-> Absent, H_measure |-> Absent,
     R_measure_var |-> Absent, _alpha_sq |-> Absent,
     M_proc_measure_xcor |-> Absent, z_measure |-> Absent,
     K |-> Absent, y |-> Absent, S |-> Absent, SI |-> Absent, _I |-> Absent,
     x_prior |-> Absent, P_prior |-> Absent, x_post |-> Absent, P_post |-> Absent,
     _log_likelihood |-> Absent, _likelihood |-> Absent, _mahalanobis |-> Absent]

Ok(self) == [self |-> self, exc |-> "", ret |-> PyNone]
Raise(self, e) == [self |-> self, exc |-> e, ret |-> PyNone]

\* Kalman._init_arrays(state=None)
InitArrays(self) ==
    LET n == IntOf(self.dim_state)
        m == IntOf(self.dim_measurement)
        s1 == [self EXCEPT
                 !.x_state = PyArr(Zeros(n, 1)),
                 !.P_cov = PyArr(Eye(n)),
                 !.Q_proc_var = PyArr(Eye(n)),
                 !.B_control = PyNone,
                 !.F_state_trans = PyArr(Eye(n)),
                 !.H_measure = PyArr(Zeros(m, n)),
                 !.R_measure_var = PyArr(Eye(m)),
                 !._alpha_sq = PyFloat(Q1),
                 !.M_proc_measure_xcor = PyArr(Zeros(n, m)),
                 !.z_measure = PyArr(NoneColumn(m)),
                 !.K = PyArr(Zeros(n, m))]
    IN  IF ~NameBound("zeros")           \* line 120: self.y = zeros(...)
        THEN Raise(s1, "NameError")
        ELSE Ok([s1 EXCEPT
                 !.y = PyArr(Zeros(m, 1)),
                 !.S = PyArr(Zeros(m, m)),
                 !.SI = PyArr(Zeros(m, m)),
                 !._I = PyArr(Eye(n)),
                 !.x_prior = s1.x_state,
                 !.P_prior = s1.P_cov,
                 !.x_post = s1.x_state,
                 !.P_post = s1.P_cov])

\* Kalman.__init__(dim_state, dim_measurement=None, dim_control=0)
Kalman_Init(self, dim_state, dim_measurement, dim_control) ==
    InitArrays([self EXCEPT
                 !.dim_state = PyInt(dim_state),
                 !.dim_measurement =
                     IF IsNone(dim_measurement) THEN PyInt(dim_state)
                     ELSE dim_measurement,
                 !.dim_control = PyInt(dim_control)])

\* lines 164-167 / 221-224: None -> the stored matrix, a scalar -> scalar * identity
ResolveNoise(arg, stored, dim) ==
    IF IsNone(arg) THEN stored
    ELSE IF IsScalar(arg) THEN PyArr(Scale(arg.v, Eye(dim)))
    ELSE arg

\* lines 160-163, 226-228: None -> the stored matrix
ResolveMatrix(arg, stored) == IF IsNone(arg) THEN stored ELSE arg

\* lines 171-174: x_state = Fx + Bu, or Fx
PredictState(F, x, B, u) ==
    IF ~IsNone(B) /\ ~IsNone(u)
    THEN MAdd(Dot(F.v, x), Dot(B.v, u.v))
    ELSE Dot(F.v, x)

\* the covariance prediction without the fading-memory factor
PredictCovNoFading(alpha_sq, F, P, Q) ==
    MAdd(Dot(Dot(F, P), Transpose(F)), Q)

\* line 177: P_cov = alpha^2 FPF' + Q
PredictCov(alpha_sq, F, P, Q) ==
    MAdd(Scale(alpha_sq, Dot(Dot(F, P), Transpose(F))), Q)

\* np.dot(A, B) of two 2-D arrays raises ValueError ("shapes not aligned")
\* exactly when A has not as many columns as B has rows
DotRaises(A, B) == Cols(A) # Rows(B)

\* lines 171-174: the products np.dot(F, x_state) and np.dot(B, u) are formed
\* before anything is assigned; a misaligned one raises ValueError
PredictStateRaises(F, x, B, u) ==
    \/ DotRaises(F.v, x)
    \/ (~IsNone(B) /\ ~IsNone(u) /\ DotRaises(B.v, u.v))

\* Kalman.predict(u=None, B=None, F=None, Q=None)
Kalman_Predict(self, u, B, F, Q) ==
    With(self, LAMBDA s0 :
    With(ResolveMatrix(B, s0.B_control), LAMBDA Bm :
    With(ResolveMatrix(F, s0.F_state_trans), LAMBDA Fm :
    With(ResolveNoise(Q, s0.Q_proc_var, IntOf(s0.dim_state)), LAMBDA Qm :
        IF PredictStateRaises(Fm, s0.x_state.v, Bm, u)                \* lines 172, 174
        THEN Raise(s0, "ValueError")
        ELSE
    With([s0 EXCEPT !.x_state = PyArr(PredictState(Fm, s0.x_state.v, Bm, u))],
         LAMBDA s1 :
    With([s1 EXCEPT !.P_cov =
              PyArr(PredictCov(s1._alpha_sq.v, Fm.v, s1.P_cov.v, Qm.v))],
         LAMBDA s2 :
        IF ~HasAttr(s2.x_prior) THEN Raise(s2, "AttributeError")      \* line 180
        ELSE IF ~HasAttr(s2.P_prior)                                  \* line 181
        THEN Raise([s2 EXCEPT !.x_prior = s2.x_state], "AttributeError")
        ELSE Ok([s2 EXCEPT !.x_prior = s2.x_state, !.P_prior = s2.P_cov])))))))

\* lines 214-219: the "no measurement" path of update
UpdateSentinel(self) ==
    With([self EXCEPT
            !.z_measure = PyArr(NoneColumn(IntOf(self.dim_measurement)))],
         LAMBDA s1 :
        IF ~HasAttr(s1.x_post) THEN Raise(s1, "AttributeError")       \* line 216
        ELSE IF ~HasAttr(s1.P_post)                                   \* line 217
        THEN Raise([s1 EXCEPT !.x_post = s1.x_state], "AttributeError")
        ELSE Ok([s1 EXCEPT
                 !.x_post = s1.x_state,
                 !.P_post = s1.P_cov,
                 !.y = PyArr(Zeros(IntOf(s1.dim_measurement), 1))]))

\* line 232: y = z - Hx
Residual(z, H, x) == MSub(z, Dot(H, x))

\* lines 235-239: S = HPH' + R
InnovationCov(H, P, R) == MAdd(Dot(H, Dot(P, Transpose(H))), R)

\* lines 235, 243: K = PH'inv(S)
Gain(P, H, SI) == Dot(Dot(P, Transpose(H)), SI)

\* line 247: x_state = x_state + Ky
PosteriorState(x, K, y) == MAdd(x, Dot(K, y))

\* lines 254-255: P_cov = (I-KH)P(I-KH)' + KRK'
JosephCov(I, K, H, P, R) ==
    With(MSub(I, Dot(K, H)), LAMBDA I_KH :
        MAdd(Dot(Dot(I_KH, P), Transpose(I_KH)), Dot(Dot(K, R), Transpose(K))))

\* lines 254-260: the posterior covariance and the snapshots
UpdatePosterior(self, z, R, H) ==
    IF ~HasAttr(self._I) THEN Raise(self, "AttributeError")           \* line 254
    ELSE
    With([self EXCEPT !.P_cov =
              PyArr(JosephCov(self._I.v, self.K.v, H, self.P_cov.v, R))],
         LAMBDA s6 :
    With([s6 EXCEPT !.z_measure = PyArr(z)], LAMBDA s7 :
        IF ~HasAttr(s7.x_post) THEN Raise(s7, "AttributeError")       \* line 259
        ELSE IF ~HasAttr(s7.P_post)                                   \* line 260
        THEN Raise([s7 EXCEPT !.x_post = s7.x_state], "AttributeError")
        ELSE Ok([s7 EXCEPT !.x_post = s7.x_state, !.P_post = s7.P_cov])))

\* lines 230-260: the innovation step, z and the matrices H, R resolved
UpdateMeasurement(self, z, R, H) ==
    With([self EXCEPT !.y = PyArr(Residual(z, H, self.x_state.v))], LAMBDA s1 :
    With([s1 EXCEPT !.S = PyArr(InnovationCov(H, s1.P_cov.v, R))], LAMBDA s2 :
        IF Singular(s2.S.v) THEN Raise(s2, "LinAlgError")             \* line 240
        ELSE
    With([s2 EXCEPT !.SI = PyArr(Inv(s2.S.v))], LAMBDA s3 :
    With([s3 EXCEPT !.K = PyArr(Gain(s3.P_cov.v, H, s3.SI.v))], LAMBDA s4 :
    With([s4 EXCEPT !.x_state =
              PyArr(PosteriorState(s4.x_state.v, s4.K.v, s4.y.v))],
         LAMBDA s5 : UpdatePosterior(s5, z, R, H))))))

\* Kalman.update(z, R=None, H=None)
Kalman_Update(self, z, R, H) ==
    With([self EXCEPT !._log_likelihood = PyNone, !._likelihood = PyNone,
                       !._mahalanobis = PyNone],
         LAMBDA s0 :
        IF IsNone(z) THEN UpdateSentinel(s0)
        ELSE
    With(ResolveNoise(R, s0.R_measure_var, IntOf(s0.dim_measurement)), LAMBDA Rm :
        IF IsNone(H) /\ ~NumpyHas("reshape_z")                        \* line 227
        THEN Raise(s0, "AttributeError")
        ELSE
    With(ResolveMatrix(H, s0.H_measure), LAMBDA Hm :
        UpdateMeasurement(s0, z.v, Rm.v, Hm.v))))

\* Kalman.process(z, **kwargs)
Kalman_Process(self, z, u, B, F, Q, R, H) ==
    With(Kalman_Predict(self, u, B, F, Q), LAMBDA p :
        IF p.exc # "" THEN p
        ELSE
    With(Kalman_Update(p.self, z, R, H), LAMBDA r :
        IF r.exc # "" THEN r
        ELSE [self |-> r.self, exc |-> "", ret |-> r.self.x_state]))

\* Kalman.alpha (getter)
Kalman_GetAlpha(self) == PyFloat(RSqrt(self._alpha_sq.v))

\* Kalman.alpha (setter)
Kalman_SetAlpha(self, value) ==
    IF ~IsScalar(value) \/ RLess(value.v, Q1)
    THEN Raise(self, "ValueError")
    ELSE Ok([self EXCEPT !._alpha_sq = PyFloat(RMul(value.v, value.v))])


\* ------------------------------------------------------- inputs of the calls

Ones(r, c) == [i \in 1..r |-> [j \in 1..c |-> Q1]]
\* ones on the leading diagonal, zeros elsewhere (r-by-c)
Diag(r, c) == [i \in 1..r |-> [j \in 1..c |-> IF i = j THEN Q1 ELSE Q0]]
\* 2 on and above the diagonal, zeros below: a non-symmetric transition matrix
Upper2(n) == [i \in 1..n |-> [j \in 1..n |-> IF j >= i THEN <<2, 1>> ELSE Q0]]

\* (dim_state, dim_measurement, dim_control) of the filters constructed
KalmanDims == {<<1, PyNone, 0>>, <<2, PyInt(1), 1>>}

NK(self) == IntOf(self.dim_state)
MK(self) == IntOf(self.dim_measurement)
CK(self) == Max(IntOf(self.dim_control), 1)

ControlArgs(self) == {PyNone, PyArr(Ones(CK(self), 1))}
ControlMatrixArgs(self) == {PyNone, PyArr(Ones(NK(self), CK(self)))}
TransitionArgs(self) == {PyNone, PyArr(Upper2(NK(self)))}
ProcessNoiseArgs(self) == {PyNone, PyFloat(<<2, 1>>)}
MeasurementArgs(self) ==
    {PyNone, PyArr(Ones(MK(self), 1))}
        \cup (IF MK(self) = NK(self) THEN {self.x_state} ELSE {})
MeasurementNoiseArgs(self) == {PyNone, PyFloat(Q0), PyFloat(<<2, 1>>)}
MeasurementMatrixArgs(self) ==
    {PyNone, PyArr(Diag(MK(self), NK(self))), PyArr(Zeros(MK(self), NK(self)))}
AlphaArgs ==
    {PyFloat(<<1, 2>>), PyFloat(<<3, 2>>), PyFloat(NaN), PyArr(<<<<<<3, 2>>>>>>)}

\* the model matrices a caller assigns, and the value assigned to each: plain
\* attributes, so any value is stored; one transition matrix is
\* (n+1)-by-(n+1), a shape that does not fit dim_state = n
Assignable(self) ==
    {<<"B_control", PyArr(Ones(NK(self), CK(self)))>>,
     <<"F_state_trans", PyArr(Upper2(NK(self)))>>,
     <<"F_state_trans", PyArr(Upper2(NK(self) + 1))>>,
     <<"Q_proc_var", PyArr(Zeros(NK(self), NK(self)))>>,
     <<"H_measure", PyArr(Diag(MK(self), NK(self)))>>,
     <<"R_measure_var", PyArr(Zeros(MK(self), MK(self)))>>}

NoArgs ==
    [z |-> PyNone, R |-> PyNone, H |-> PyNone, u |-> PyNone, B |-> PyNone,
     F |-> PyNone, Q |-> PyNone, value |-> PyNone, name |-> ""]

NoCall == [op |-> "none", args |-> NoArgs, pre |-> Kalman_New, exc |-> "", ret |-> PyNone]

Record(op, args, pre, r) ==
    [op |-> op, args |-> args, pre |-> pre, exc |-> r.exc, ret |-> r.ret]

\* ------------------------------------------------------------------ actions

Init ==
    /\ iir = IIR_New
    /\ iir_out = NoOut
    /\ fed = <<>>
    /\ kf = Kalman_New
    /\ call = NoCall
    /\ ncalls = 0

Constructing == ~HasAttr(kf.dim_state)

\* The methods below are called on the instance __init__ was run on, whether
\* __init__ returned or raised: an attribute __init__ did not get to create is
\* Absent, and the method that reads it raises AttributeError.

Call_Init ==
    /\ Constructing
    /\ \E d \in KalmanDims :
         LET r == Kalman_Init(kf, d[1], d[2], d[3])
         IN  /\ kf' = r.self
             /\ call' = Record("__init__", [NoArgs EXCEPT !.value = d[2]], kf, r)
    /\ UNCHANGED <<iir, iir_out, fed, ncalls>>

Call_SetAttr ==
    /\ ~Constructing
    /\ ncalls < MaxCalls
    /\ \E a \in Assignable(kf) :
         /\ kf' = [kf EXCEPT ![a[1]] = a[2]]
         /\ call' = Record("setattr", [NoArgs EXCEPT !.name = a[1], !.value = a[2]],
                           kf, Ok(kf))
    /\ ncalls' = ncalls + 1
    /\ UNCHANGED <<iir, iir_out, fed>>

Call_Predict ==
    /\ ~Constructing
    /\ ncalls < MaxCalls
    /\ \E u \in ControlArgs(kf), B \in ControlMatrixArgs(kf),
          F \in TransitionArgs(kf), Q \in ProcessNoiseArgs(kf) :
         LET r == Kalman_Predict(kf, u, B, F, Q)
         IN  /\ kf' = r.self
             /\ call' = Record("predict",
                               [NoArgs EXCEPT !.u = u, !.B = B, !.F = F, !.Q = Q], kf, r)
    /\ ncalls' = ncalls + 1
    /\ UNCHANGED <<iir, iir_out, fed>>

Call_Update ==
    /\ ~Constructing
    /\ ncalls < MaxCalls
    /\ \E z \in MeasurementArgs(kf), R \in MeasurementNoiseArgs(kf),
          H \in MeasurementMatrixArgs(kf) :
         LET r == Kalman_Update(kf, z, R, H)
         IN  /\ kf' = r.self
             /\ call' = Record("update", [NoArgs EXCEPT !.z = z, !.R = R, !.H = H], kf, r)
    /\ ncalls' = ncalls + 1
    /\ UNCHANGED <<iir, iir_out, fed>>

Call_Process ==
    /\ ~Constructing
    /\ ncalls < MaxCalls
    /\ \E z \in MeasurementArgs(kf), F \in TransitionArgs(kf),
          H \in MeasurementMatrixArgs(kf) :
         LET r == Kalman_Process(kf, z, PyNone, PyNone, F, PyNone, PyNone, H)
         IN  /\ kf' = r.self
             /\ call' = Record("process", [NoArgs EXCEPT !.z = z, !.F = F, !.H = H], kf, r)
    /\ ncalls' = ncalls + 1
    /\ UNCHANGED <<iir, iir_out, fed>>

Call_SetAlpha ==
    /\ ~Constructing
    /\ ncalls < MaxCalls
    /\ \E value \in AlphaArgs :
         LET r == Kalman_SetAlpha(kf, value)
         IN  /\ kf' = r.self
             /\ call' = Record("alpha", [NoArgs EXCEPT !.value = value], kf, r)
    /\ ncalls' = ncalls + 1
    /\ UNCHANGED <<iir, iir_out, fed>>

NextIIR == IIR_Construct \/ IIR_Process

NextKalman ==
    \/ Call_Init
    \/ Call_SetAttr
    \/ Call_Predict
    \/ Call_Update
    \/ Call_Process
    \/ Call_SetAlpha

\* The two classes share no state, so their interleavings add nothing: a
\* behaviour of Spec drives one instance, the Filter_IIR or the Kalman.
Next ==
    \/ Constructing /\ NextIIR
    \/ iir.status = "new" /\ NextKalman

SpecIIR == Init /\ [][NextIIR]_vars
SpecKalman == Init /\ [][NextKalman]_vars
Spec == Init /\ [][Next]_vars


\* ======================================================= claims: Filter_IIR

\* The textbook direct-form difference equation
\*   a0 y[n] = b0 x[n] + b1 x[n-1] + ... - a1 y[n-1] - a2 y[n-2] - ...
\* from zero initial conditions: the outputs y[1..n] for the inputs x[1..n].
RECURSIVE DirectForm(_, _, _, _)
DirectForm(b, a, x, n) ==
    IF n = 0 THEN <<>>
    ELSE With(DirectForm(b, a, x, n - 1), LAMBDA prev :
           Append(prev,
             RDiv(RSub(RSum([k \in 1..Len(b) |->
                              IF n - k + 1 >= 1 THEN RMul(b[k], x[n - k + 1]) ELSE Q0],
                            Len(b)),
                       RSum([k \in 1..Len(a) |->
                              IF k >= 2 /\ n - k + 1 >= 1
                              THEN RMul(a[k], prev[n - k + 1]) ELSE Q0],
                            Len(a))),
                  a[1])))

\* the second-order sections in cascade, each by the difference equation
RECURSIVE DirectCascade(_, _)
DirectCascade(sos, x) ==
    IF sos = <<>> THEN x
    ELSE DirectCascade(Tail(sos),
            DirectForm(SubSeq(Head(sos), 1, 3), SubSeq(Head(sos), 4, 6), x, Len(x)))

Recurrence(coef_type, coefs, x) ==
    IF coef_type = "ba" THEN DirectForm(coefs[1], coefs[2], x, Len(x))
    ELSE DirectCascade(coefs, x)

\* one recursion step on a single sample from rest: the product of the leading
\* gains b0/a0 times the sample
RECURSIVE LeadingGain(_)
LeadingGain(sos) ==
    IF sos = <<>> THEN Q1 ELSE RMul(RDiv(Head(sos)[1], Head(sos)[4]), LeadingGain(Tail(sos)))

OneStep(coef_type, coefs, x) ==
    IF coef_type = "ba" THEN RMul(RDiv(coefs[1][1], coefs[2][1]), x)
    ELSE RMul(LeadingGain(coefs), x)

\* the last k items of s
LastN(s, k) == SubSeq(s, Len(s) - k + 1, Len(s))

\* C7: the n-th value process returns is the last output of the filter
\* recurrence (direct form for 'ba', cascaded sections for 'sos'), from zero
\* initial conditions, over exactly the most recent min(n, buffer_size) samples;
\* for n = 1 it is one recursion step on the single sample.
C7_WindowedRecurrence ==
    (iir_out.op = "process" /\ iir.coef_type \in {"ba", "sos"}) =>
        /\ iir_out.exc = ""
        /\ iir_out.ret =
             PyFloat(Last(Recurrence(iir.coef_type, iir.coefs,
                                     LastN(fed, Min(Len(fed), iir.maxlen)))))
        /\ Len(fed) = 1 => iir_out.ret = PyFloat(OneStep(iir.coef_type, iir.coefs, fed[1]))

\* more samples fed than the buffer holds, and the evicted ones would have
\* changed the output
C7_Witness ==
    /\ iir_out.op = "process"
    /\ iir.coef_type = "sos"
    /\ Len(fed) > iir.maxlen
    /\ iir_out.ret # PyFloat(Last(Recurrence(iir.coef_type, iir.coefs, fed)))

\* C8: the buffer never holds more than buffer_size samples; a process call
\* appends its sample at the newest end, evicts the oldest sample exactly when
\* the buffer was full, keeps the others in order, and changes nothing else of
\* the filter (coefficients, coef_type, axis, capacity).
C8_BufferDiscipline ==
    /\ [](Len(iir.buffer) <= iir.maxlen)
    /\ [][fed' # fed =>
            /\ iir'.buffer =
                 (IF Len(iir.buffer) = iir.maxlen THEN Tail(iir.buffer) ELSE iir.buffer)
                     \o <<Last(fed')>>
            /\ iir'.coefs = iir.coefs
            /\ iir'.coef_type = iir.coef_type
            /\ iir'.axis = iir.axis
            /\ iir'.maxlen = iir.maxlen
            /\ iir'.status = iir.status]_vars

\* a full buffer from which an older sample has been evicted
C8_Witness ==
    /\ iir.status = "constructed"
    /\ iir.maxlen = 2
    /\ Len(fed) > iir.maxlen
    /\ iir.buffer = LastN(fed, iir.maxlen)
    /\ fed[1] # fed[2]

\* C10: a coefficient type other than 'ba' and 'sos' is rejected at
\* construction, so no constructed filter appends a sample and returns no
\* filtered value.
C10_UnrecognisedFormRejected ==
    /\ (iir_out.op = "__init__" /\ iir.coef_type \notin {"ba", "sos"})
          => (iir_out.exc # "" /\ iir.status # "constructed")
    /\ iir_out.op = "process" => ~IsNone(iir_out.ret)


\* =========================================================== claims: Kalman

\* the arguments of the last call and the attributes before it
Pre == call.pre
Args == call.args

RealMeasurement == call.op = "update" /\ ~IsNone(Args.z)

\* the matrices the last update used: the override when given, else the stored
UsedH == IF IsNone(Args.H) THEN Pre.H_measure.v ELSE Args.H.v
UsedR ==
    IF IsNone(Args.R) THEN Pre.R_measure_var.v
    ELSE IF IsScalar(Args.R) THEN Scale(Args.R.v, Eye(IntOf(Pre.dim_measurement)))
    ELSE Args.R.v

\* the matrices the last predict used
UsedB == IF IsNone(Args.B) THEN Pre.B_control ELSE Args.B
UsedF == IF IsNone(Args.F) THEN Pre.F_state_trans.v ELSE Args.F.v
UsedQ ==
    IF IsNone(Args.Q) THEN Pre.Q_proc_var.v
    ELSE IF IsScalar(Args.Q) THEN Scale(Args.Q.v, Eye(IntOf(Pre.dim_state)))
    ELSE Args.Q.v

\* C1: update with the "no measurement" sentinel returns without raising,
\* leaves x_state and P_cov unchanged, sets x_post = x_state, P_post = P_cov,
\* y to the zero vector of shape (dim_measurement, 1) and z_measure to the
\* sentinel.
C1_SentinelUpdate ==
    (call.op = "update" /\ IsNone(Args.z)) =>
        /\ call.exc = ""
        /\ kf.x_state = Pre.x_state
        /\ kf.P_cov = Pre.P_cov
        /\ kf.x_post = kf.x_state
        /\ kf.P_post = kf.P_cov
        /\ kf.y = PyArr(Zeros(IntOf(kf.dim_measurement), 1))
        /\ kf.z_measure = PyArr(NoneColumn(IntOf(kf.dim_measurement)))

\* C2: update with a real measurement and no overrides completes without
\* error using the stored H_measure and R_measure_var, and afterwards
\* y = z - H x_old, S = H P_old H' + R, K = P_old H' inverse(S),
\* x_state = x_old + K y and P_cov = (I - KH) P_old (I - KH)' + K R K'.
C2_UpdateWithStoredMatrices ==
    (RealMeasurement /\ IsNone(Args.R) /\ IsNone(Args.H)) =>
        /\ call.exc = ""
        /\ kf.y.v = MSub(Args.z.v, Dot(UsedH, Pre.x_state.v))
        /\ kf.S.v = MAdd(Dot(Dot(UsedH, Pre.P_cov.v), Transpose(UsedH)), UsedR)
        /\ kf.K.v = Dot(Dot(Pre.P_cov.v, Transpose(UsedH)), Inv(kf.S.v))
        /\ kf.x_state.v = MAdd(Pre.x_state.v, Dot(kf.K.v, kf.y.v))
        /\ LET I_KH == MSub(Eye(IntOf(Pre.dim_state)), Dot(kf.K.v, UsedH))
           IN  kf.P_cov.v =
                 MAdd(Dot(Dot(I_KH, Pre.P_cov.v), Transpose(I_KH)),
                      Dot(Dot(kf.K.v, UsedR), Transpose(kf.K.v)))

\* the (i, i) entries of A are all >= those of B, and one is greater
DiagonalExceeds(A, B) ==
    /\ \A i \in 1..Rows(A) : ~RLess(A[i][i], B[i][i])
    /\ \E i \in 1..Rows(A) : RLess(B[i][i], A[i][i])

\* the transition matrix the last predict used fits the state vector, so that
\* the product F x_old is defined
Aligned == Cols(UsedF) = Rows(Pre.x_state.v)

\* C3: predict, with unset arguments falling back to the stored matrices and a
\* scalar process_noise q expanded to q * identity(n), sets x_state to
\* F x_old + B control when a control matrix and a control vector are both
\* available and to F x_old otherwise, and sets P_cov to
\* alpha^2 F P_old F' + Q; for alpha > 1 that exceeds the alpha = 1 result.
\* (The equations are stated for a transition matrix that fits the state.)
C3_PredictEquations ==
    (call.op = "predict" /\ Aligned) =>
        LET Fx == Dot(UsedF, Pre.x_state.v)
            FPF == Dot(Dot(UsedF, Pre.P_cov.v), Transpose(UsedF))
        IN  /\ kf.x_state.v =
                 IF ~IsNone(UsedB) /\ ~IsNone(Args.u)
                 THEN MAdd(Fx, Dot(UsedB.v, Args.u.v)) ELSE Fx
            /\ kf.P_cov.v = MAdd(Scale(Pre._alpha_sq.v, FPF), UsedQ)
            /\ RLess(Q1, Pre._alpha_sq.v) => DiagonalExceeds(kf.P_cov.v, MAdd(FPF, UsedQ))

\* a predict with alpha > 1, a control vector and matrix, a transition override
\* and a scalar process noise, on a two-state filter
C3_Witness ==
    /\ call.op = "predict"
    /\ RLess(Q1, Pre._alpha_sq.v)
    /\ ~IsNone(Args.u) /\ ~IsNone(Args.B) /\ ~IsNone(Args.F) /\ IsScalar(Args.Q)
    /\ IntOf(kf.dim_state) = 2

\* C4: with H = I, F = I, Q = 0 and R = 0, a predict followed by an update
\* whose measurement equals the state prior leaves x_state and P_cov unchanged.
C4_NoiselessObservationIsNoOp ==
    /\ (/\ call.op = "predict"
        /\ UsedF = Eye(IntOf(Pre.dim_state))
        /\ UsedQ = Zeros(IntOf(Pre.dim_state), IntOf(Pre.dim_state))
        /\ Pre._alpha_sq.v = Q1)
          => /\ call.exc = ""
             /\ kf.x_prior = kf.x_state
             /\ kf.x_state = Pre.x_state
             /\ kf.P_cov = Pre.P_cov
    /\ (/\ RealMeasurement
        /\ IntOf(Pre.dim_measurement) = IntOf(Pre.dim_state)
        /\ UsedH = Eye(IntOf(Pre.dim_state))
        /\ UsedR = Zeros(IntOf(Pre.dim_state), IntOf(Pre.dim_state))
        /\ Args.z = Pre.x_state)
          => /\ call.exc = ""
             /\ kf.x_state = Pre.x_state
             /\ kf.P_cov = Pre.P_cov

C6_AlphaSetter ==
    /\ (call.op = "alpha" /\ (~IsScalar(Args.value) \/ RLess(Args.value.v, Q1)))
          => (call.exc = "ValueError" /\ kf._alpha_sq = Pre._alpha_sq)
    /\ (call.op = "alpha" /\ IsScalar(Args.value) /\ RLeq(Q1, Args.value.v))
          => /\ call.exc = ""
             /\ kf._alpha_sq = PyFloat(RMul(Args.value.v, Args.value.v))
             /\ Kalman_GetAlpha(kf) = Args.value
    /\ HasAttr(kf._alpha_sq) => RLeq(Q1, kf._alpha_sq.v)

\* C9: an update with a real measurement whose innovation covariance
\* S = H P_cov H' + R is singular fails with the numerical error of the matrix
\* inverse, and x_state, P_cov, x_post and P_post keep their values.
C9_SingularInnovationPropagates ==
    (RealMeasurement
        /\ Singular(MAdd(Dot(Dot(UsedH, Pre.P_cov.v), Transpose(UsedH)), UsedR)))
      => /\ call.exc = "LinAlgError"
         /\ kf.x_state = Pre.x_state
         /\ kf.P_cov = Pre.P_cov
         /\ kf.x_post = Pre.x_post
         /\ kf.P_post = Pre.P_post

\* the shape of a 2-D array
Shape(A) == <<Rows(A), Cols(A)>>

\* the shape dim_state, dim_measurement and dim_control fix for a model matrix
ExpectedShape(self, name) ==
    CASE name = "F_state_trans" -> <<NK(self), NK(self)>>
      [] name = "Q_proc_var"    -> <<NK(self), NK(self)>>
      [] name = "H_measure"     -> <<MK(self), NK(self)>>
      [] name = "R_measure_var" -> <<MK(self), MK(self)>>
      [] name = "B_control"     -> <<NK(self), CK(self)>>

\* C11: a model matrix whose shape does not match dim_state / dim_measurement /
\* dim_control is reported as an error when it is set (and is not stored), and
\* no predict, update or process call is the first to detect a shape mismatch.
C11_ShapeErrorsReportedWhenSet ==
    /\ (call.op = "setattr" /\ Shape(Args.value.v) # ExpectedShape(Pre, Args.name))
          => (call.exc # "" /\ kf = Pre)
    /\ call.op \in {"predict", "update", "process"} => call.exc # "ValueError"

\* C12: process(z, overrides) does what one predict call with the supplied
\* u, B, F, Q followed by one update call with z and the supplied R, H does:
\* it completes, leaves the filter in the state those two calls leave it in,
\* and returns the resulting x_state; with the sentinel measurement the value
\* returned is the predicted state F x_old (+ B u).
C12_ProcessIsPredictThenUpdate ==
    call.op = "process" =>
        /\ call.exc = ""
        /\ With(Kalman_Predict(Pre, Args.u, Args.B, Args.F, Args.Q), LAMBDA p :
             /\ p.exc = ""
             /\ With(Kalman_Update(p.self, Args.z, Args.R, Args.H), LAMBDA r :
                  /\ r.exc = ""
                  /\ kf = r.self))
        /\ call.ret = kf.x_state
        /\ IsNone(Args.z) =>
              call.ret.v =
                 IF ~IsNone(UsedB) /\ ~IsNone(Args.u)
                 THEN MAdd(Dot(UsedF, Pre.x_state.v), Dot(UsedB.v, Args.u.v))
                 ELSE Dot(UsedF, Pre.x_state.v)

\* C13: after each predict, x_prior = x_state and P_prior = P_cov, and x_post
\* and P_post keep the values they had before it; after each update,
\* x_post = x_state and P_post = P_cov, and x_prior and P_prior keep the
\* values they had before it.
C13_SnapshotsAreCopies ==
    /\ call.op = "predict" =>
          /\ HasAttr(kf.x_prior) /\ kf.x_prior = kf.x_state
          /\ HasAttr(kf.P_prior) /\ kf.P_prior = kf.P_cov
          /\ kf.x_post = Pre.x_post
          /\ kf.P_post = Pre.P_post
    /\ call.op = "update" =>
          /\ HasAttr(kf.x_post) /\ kf.x_post = kf.x_state
          /\ HasAttr(kf.P_post) /\ kf.P_post = kf.P_cov
          /\ kf.x_prior = Pre.x_prior
          /\ kf.P_prior = Pre.P_prior

\* C14: Kalman(n) with n >= 1 (dim_measurement m omitted or given,
\* dim_control 0 by default) returns without raising, with dim_measurement = n
\* when omitted, x_state the n-by-1 zero vector, P_cov the identity, y the
\* zero vector of shape (m, 1), z_measure the sentinel, alpha = 1,
\* x_prior = x_post = x_state and P_prior = P_post = P_cov; predict, update
\* and process can then be called.
C14_ConstructionSucceeds ==
    /\ call.op = "__init__" =>
          /\ call.exc = ""
          /\ IsNone(Args.value) => kf.dim_measurement = kf.dim_state
          /\ kf.x_state = PyArr(Zeros(NK(kf), 1))
          /\ kf.P_cov = PyArr(Eye(NK(kf)))
          /\ kf.y = PyArr(Zeros(MK(kf), 1))
          /\ kf.z_measure = PyArr(NoneColumn(MK(kf)))
          /\ Kalman_GetAlpha(kf) = PyFloat(Q1)
          /\ kf.x_prior = kf.x_state /\ kf.x_post = kf.x_state
          /\ kf.P_prior = kf.P_cov /\ kf.P_post = kf.P_cov
    /\ (call.op \in {"predict", "update", "process"} /\ ncalls = 1 /\ IsNone(Args.z))
          => call.exc = ""

=============================================================================
